---- MODULE Spec2Model ----
(***************************************************************************)
(* Model of part_b/modified_neural_network.py: the three-layer sigmoid     *)
(* AutoEncoder, train (per-user SGD on a masked reconstruction loss, with  *)
(* a step decay of the learning rate at epoch 40), evaluate and main.      *)
(*                                                                         *)
(* Numbers.  The program computes in float32.  The model computes in fixed *)
(* point: the integer v stands for v / SC.  Products are rounded to the    *)
(* nearest unit.  torch.sigmoid is a table; the table keeps the two facts  *)
(* about float32 that the resolution would otherwise hide: a value that    *)
(* float32 still tells apart from 0 or from 1 is kept apart from 0 and SC, *)
(* and the value is exactly 0 or exactly 1 where float32 has no number     *)
(* left in between (pre-activation <= -104, resp. >= 18).                  *)
(***************************************************************************)
EXTENDS Integers, Sequences, FiniteSets, TLC

\* ---------------------------------------------------------------- bounds
NumQuestion == 2
HiddenK == 1
NumStudent == 2
MaxEpoch == 42
MaxCalls == 2

\* ------------------------------------------------------------ fixed point
SC == 2 ^ 6
Half == SC \div 2
\* The missing marker of the raw matrix (np.nan): a value no observed cell has.
NaN == 0 - 1
isnan(v) == v = NaN

Rnd(n, d) == (2 * n + d) \div (2 * d)
Mul(a, b) == Rnd(a * b, SC)

RECURSIVE SumTo(_, _)
SumTo(f, n) == IF n = 0 THEN 0 ELSE f[n - 1] + SumTo(f, n - 1)

Rows(W) == Cardinality(DOMAIN W)
Cols(W) == Cardinality(DOMAIN W[0])

\* ---------------------------------------------------------- torch.sigmoid
\* SigThresh[i] is the least pre-activation z >= 0 (in units of 1/SC) with
\* sigmoid(z / SC) rounding to (Half + i) / SC.
SigThresh ==
    <<3, 7, 11, 15, 19, 23, 27, 31, 35, 40, 44, 49, 53, 58, 63, 68, 74, 79,
      85, 91, 98, 105, 112, 121, 130, 140, 152, 166, 183, 205, 239>>
\* float32: sigmoid(z) = 1.0 for z >= 18 (1 - sigmoid(z) < 2^-25), and
\* sigmoid(z) = 0.0 for z <= -104 (below half the least subnormal).
SatHi == 18 * SC
SatLo == (0 - 104) * SC

SigPos(z) == Half + Cardinality({i \in DOMAIN SigThresh : SigThresh[i] <= z})

sigmoid(z) ==
    IF z >= SatHi THEN SC
    ELSE IF z <= SatLo THEN 0
    ELSE IF z >= 0 THEN SigPos(z)
    ELSE SC - SigPos(0 - z)

\* ------------------------------------------------------------- nn.Linear
\* W is out x in, rows 0..out-1; Linear(W, b, x)[i] = sum_j W[i][j] x[j] + b[i]
Linear(W, b, x) ==
    [i \in DOMAIN W |->
        SumTo([j \in DOMAIN x |-> Mul(W[i][j], x[j])], Cardinality(DOMAIN x)) + b[i]]

SigVec(v) == [i \in DOMAIN v |-> sigmoid(v[i])]

\* ----------------------------------------------------------- AutoEncoder
\* The last affine map of forward: the pre-activation of the output layer.
PreOut(m, inputs) ==
    Linear(m.h_w, m.h_b,
           SigVec(Linear(m.hidden_w, m.hidden_b,
                         SigVec(Linear(m.g_w, m.g_b, inputs)))))

\* Mutant of forward: the last sigmoid is left out.
forward_linear(m, inputs) == PreOut(m, inputs)

forward(m, inputs) == SigVec(PreOut(m, inputs))

\* torch.norm(W, 2) ** 2 of a matrix: the sum of its squared entries.
SqNorm(W) ==
    SumTo([i \in DOMAIN W |->
              SumTo([j \in DOMAIN W[i] |-> Mul(W[i][j], W[i][j])], Cols(W))],
          Rows(W))

get_weight_norm(m) ==
    LET g_w_norm == SqNorm(m.g_w)
        hidden_w_norm == SqNorm(m.hidden_w)
        h_w_norm == SqNorm(m.h_w)
    IN  g_w_norm + h_w_norm

\* -------------------------------------------------------------- evaluate
\* Python compares the bool guess with the integer label: True == 1.
BoolInt(b) == IF b THEN 1 ELSE 0

\* Mutant of Guess: the tie at 0.5 goes the other way.
Guess_strict(v) == v > Half

\* guess = output[0][question].item() >= 0.5
Guess(v) == v >= Half

\* The loop of evaluate over the first n triples: <<correct, total>>.
RECURSIVE EvalLoop(_, _, _, _)
EvalLoop(m, data, triples, n) ==
    IF n = 0 THEN <<0, 0>>
    ELSE LET prev == EvalLoop(m, data, triples, n - 1)
             t == triples[n]
             output == forward(m, data[t.user_id])
             guess == Guess(output[t.question_id])
         IN  <<prev[1] + (IF BoolInt(guess) = t.is_correct THEN 1 ELSE 0),
               prev[2] + 1>>

RECURSIVE Gcd(_, _)
Gcd(a, b) == IF b = 0 THEN a ELSE Gcd(b, a % b)

\* correct / float(total): the quotient as a fraction in lowest terms, or
\* Python's ZeroDivisionError.
Raised(e) == [err |-> e, num |-> 0, den |-> 0]
\* Mutant of Divide: an empty set is given accuracy 0.
Divide_guarded(correct, total) ==
    IF total = 0 THEN [err |-> "", num |-> 0, den |-> 1]
    ELSE [err |-> "", num |-> correct, den |-> total]

Divide(correct, total) ==
    IF total = 0 THEN Raised("ZeroDivisionError")
    ELSE LET g == Gcd(correct, total)
         IN  [err |-> "", num |-> correct \div g, den |-> total \div g]

\* Mutant of evaluate: the forward passes of the loop leave a trace in a
\* parameter (the output bias of the first question asked).
evaluate_dirty(m, data, triples) ==
    LET ct == EvalLoop(m, data, triples, Len(triples))
    IN  [val |-> Divide(ct[1], ct[2]),
         model |-> [m EXCEPT !.training = FALSE,
                             !.h_b[0] = IF Len(triples) > 0 THEN @ + SC ELSE @]]

\* evaluate's return value and the model it leaves (model.eval() clears
\* the training flag; nothing else is assigned).
evaluate(m, data, triples) ==
    LET ct == EvalLoop(m, data, triples, Len(triples))
    IN  [val |-> Divide(ct[1], ct[2]),
         model |-> [m EXCEPT !.training = FALSE]]

\* ------------------------------------------------------------- load_data
\* zero_train_matrix[np.isnan(train_matrix)] = 0
ZeroFill(raw) ==
    [u \in DOMAIN raw |-> [q \in DOMAIN raw[u] |-> IF isnan(raw[u][q]) THEN 0 ELSE raw[u][q]]]

\* ----------------------------------------------------------------- train
\* Tensors that train writes to carry the storage they share: indexing,
\* Variable() and unsqueeze() give views of zero_train_data; clone() copies.
InputsOf(zero, u) == [base |-> "zero_train_data", val |-> zero[u]]
\* Mutant of clone: target = inputs, the same storage.
clone_alias(t) == t

clone(t) == [base |-> "fresh", val |-> t.val]

nan_mask(raw, u) == [q \in DOMAIN raw[u] |-> isnan(raw[u][q])]

\* Mutant of MaskedTarget: the target stays the zero-filled row.
MaskedTarget_none(target, mask, output) == target

\* target[0][nan_mask] = output[0][nan_mask]
MaskedTarget(target, mask, output) ==
    [target EXCEPT !.val = [q \in DOMAIN target.val |->
                               IF mask[q] THEN output[q] ELSE target.val[q]]]

\* The in-place write above, seen from zero_train_data.
WriteThrough(zero, u, target) ==
    IF target.base = "zero_train_data" THEN [zero EXCEPT ![u] = target.val] ELSE zero

\* torch.sum((output - target) ** 2.)
SqErr(output, target) ==
    SumTo([q \in DOMAIN output |-> Mul(output[q] - target[q], output[q] - target[q])],
          Cardinality(DOMAIN output))

Loss(m, lam, output, target) ==
    SqErr(output, target) + Mul(Rnd(lam, 2), get_weight_norm(m))

\* loss.backward(): the gradient of Loss with respect to every parameter.
\* The penalty's gradient is that of get_weight_norm: lam * W on g and h only.
DSig(a) == Mul(a, SC - a)
Backward(m, lam, x, output, target) ==
    LET a1 == SigVec(Linear(m.g_w, m.g_b, x))
        a2 == SigVec(Linear(m.hidden_w, m.hidden_b, a1))
        d3 == [j \in DOMAIN output |-> Mul(2 * (output[j] - target[j]), DSig(output[j]))]
        d2 == [i \in DOMAIN a2 |->
                  Mul(SumTo([j \in DOMAIN d3 |-> Mul(m.h_w[j][i], d3[j])],
                            Cardinality(DOMAIN d3)),
                      DSig(a2[i]))]
        d1 == [l \in DOMAIN a1 |->
                  Mul(SumTo([i \in DOMAIN d2 |-> Mul(m.hidden_w[i][l], d2[i])],
                            Cardinality(DOMAIN d2)),
                      DSig(a1[l]))]
    IN  [g_w |-> [l \in DOMAIN m.g_w |-> [q \in DOMAIN m.g_w[l] |->
                     Mul(d1[l], x[q]) + Mul(lam, m.g_w[l][q])]],
         g_b |-> d1,
         hidden_w |-> [i \in DOMAIN m.hidden_w |-> [l \in DOMAIN m.hidden_w[i] |->
                     Mul(d2[i], a1[l])]],
         hidden_b |-> d2,
         h_w |-> [j \in DOMAIN m.h_w |-> [i \in DOMAIN m.h_w[j] |->
                     Mul(d3[j], a2[i]) + Mul(lam, m.h_w[j][i])]],
         h_b |-> d3]

\* optim.SGD(...).step(): p <- p - lr * grad
StepMat(W, G, rate) == [i \in DOMAIN W |-> [j \in DOMAIN W[i] |-> W[i][j] - Mul(rate, G[i][j])]]
StepVec(b, G, rate) == [i \in DOMAIN b |-> b[i] - Mul(rate, G[i])]
sgd_step(m, grad, rate) ==
    [m EXCEPT !.g_w = StepMat(m.g_w, grad.g_w, rate),
              !.g_b = StepVec(m.g_b, grad.g_b, rate),
              !.hidden_w = StepMat(m.hidden_w, grad.hidden_w, rate),
              !.hidden_b = StepVec(m.hidden_b, grad.hidden_b, rate),
              !.h_w = StepMat(m.h_w, grad.h_w, rate),
              !.h_b = StepVec(m.h_b, grad.h_b, rate)]

\* Mutant of Accumulate: the loss is assigned, not added.
Accumulate_assign(total, loss) == loss

\* train_loss += loss.item()
Accumulate(total, loss) == total + loss

\* Mutant of range_next: every other user is skipped.
range_next_skip(i) == i + 2

\* for user_id in range(num_student): the index after i
range_next(i) == i + 1

\* The two optimizers of train and the epoch from which the second is used.
LrDecayEpoch == 40
\* optimizer: lr; optimizer_final: lr * 0.5
OptimizerLr(opt, rate) == IF opt = "optimizer_final" THEN Mul(rate, Half) ELSE rate
\* Mutant of PickOptimizer: the switch comes one epoch late.
PickOptimizer_late(opt, e) == IF e > LrDecayEpoch THEN "optimizer_final" ELSE opt

PickOptimizer(opt, e) == IF e >= LrDecayEpoch THEN "optimizer_final" ELSE opt

\* ------------------------------------------------------------------ state
VARIABLES
    pc,               \* where main is
    model,            \* the AutoEncoder: parameters and nn.Module.training
    train_data,       \* raw response matrix, NaN where missing
    zero_train_data,  \* the zero-filled matrix
    valid_data,       \* validation triples
    test_data,        \* test triples
    lr, lamb, num_epoch,
    optimizer,        \* which of train's two optimizers `optimizer` names
    epoch, user_id,
    train_loss, train_loss_lst, valid_acc_lst,
    test_acc,
    step,             \* the last pass of the user loop (lines 114-128)
    ret,              \* the last direct call of a function of the module
    ncalls

vars == <<pc, model, train_data, zero_train_data, valid_data, test_data, lr, lamb,
          num_epoch, optimizer, epoch, user_id, train_loss, train_loss_lst,
          valid_acc_lst, test_acc, step, ret, ncalls>>

dataVars == <<train_data, valid_data, test_data, lr, lamb, num_epoch>>

\* --------------------------------------------------------- enumerated inputs
Users == 0 .. NumStudent - 1
Questions == 0 .. NumQuestion - 1

Cell(n) == IF n % 3 = 0 THEN SC ELSE IF n % 3 = 1 THEN 0 ELSE NaN
\* Raw matrices: every cell 0, 1 or missing.
RawMatrix(a, c) == [u \in Users |-> [q \in Questions |-> Cell(a * u + q + c)]]
TrainMatrices == {RawMatrix(a, c) : a \in 0 .. 2, c \in 0 .. 2}

Triple(u, q, l) == [user_id |-> u, question_id |-> q, is_correct |-> l]
AllTriples(flip) ==
    [n \in 1 .. NumStudent * NumQuestion |->
        Triple((n - 1) \div NumQuestion, (n - 1) % NumQuestion, (n + flip) % 2)]
TripleSets ==
    {<<>>, <<Triple(0, 0, 1)>>, <<Triple(NumStudent - 1, NumQuestion - 1, 0)>>,
     AllTriples(0), AllTriples(1)}

Mat(r, c, a, d) == [i \in 0 .. r - 1 |-> [j \in 0 .. c - 1 |-> a + d * ((i + j) % 2)]]
Vec(n, a, d) == [i \in 0 .. n - 1 |-> a + d * (i % 2)]

\* AutoEncoder.__init__: three nn.Linear layers of the given shapes.
AutoEncoder(gw, gb, hw, hb, ow, ob, d) ==
    [g_w |-> Mat(HiddenK, NumQuestion, gw, d), g_b |-> Vec(HiddenK, gb, d),
     hidden_w |-> Mat(HiddenK, HiddenK, hw, d), hidden_b |-> Vec(HiddenK, hb, d),
     h_w |-> Mat(NumQuestion, HiddenK, ow, d), h_b |-> Vec(NumQuestion, ob, d),
     training |-> TRUE]

\* Freshly initialised models (nn.Linear draws small weights around 0).
InitModels ==
    {AutoEncoder(0, 0, 0, 0, 0, 0, 0),
     AutoEncoder(Half, 0, 0 - Half, 0, Half, 0 - Half, 8),
     AutoEncoder(0 - Half, Half, SC, 0, 0 - SC, 0, 16)}

\* The arguments of a run: short runs on every pair of triple sets, and a
\* run over all MaxEpoch epochs, past the epoch of the learning-rate switch.
RunShapes ==
    {[num_epoch |-> n, valid_data |-> v, test_data |-> t] :
        n \in {1, 2}, v \in TripleSets, t \in {<<>>, AllTriples(1)}}
    \cup {[num_epoch |-> MaxEpoch, valid_data |-> AllTriples(0), test_data |-> AllTriples(1)]}

NoStep == [n |-> 0, fwd |-> 0, epoch |-> 0, user_id |-> 0, lr |-> 0,
           output |-> <<>>, target |-> <<>>, loss |-> 0]
NoRet == [fn |-> "none", args |-> <<>>, val |-> <<>>]

\* ------------------------------------------------------------------- main
Init ==
    /\ train_data \in TrainMatrices
    /\ zero_train_data = ZeroFill(train_data)
    /\ \E shape \in RunShapes :
          /\ num_epoch = shape.num_epoch
          /\ valid_data = shape.valid_data
          /\ test_data = shape.test_data
    /\ model \in InitModels
    /\ lr \in {SC}
    /\ lamb \in {0, Half}
    /\ pc = "train_epoch"
    /\ optimizer = "optimizer"
    /\ epoch = 0
    /\ user_id = 0
    /\ train_loss = 0
    /\ train_loss_lst = <<>>
    /\ valid_acc_lst = <<>>
    /\ test_acc = Raised("unset")
    /\ step = NoStep
    /\ ret = NoRet
    /\ ncalls = 0

\* Lines 106-112: the head of an epoch.
EpochStart ==
    /\ pc = "train_epoch"
    /\ epoch < num_epoch
    /\ train_loss' = 0
    /\ optimizer' = PickOptimizer(optimizer, epoch)
    /\ model' = [model EXCEPT !.training = TRUE]
    /\ user_id' = 0
    /\ pc' = "train_user"
    /\ UNCHANGED <<dataVars, zero_train_data, epoch, train_loss_lst, valid_acc_lst,
                   test_acc, step, ret, ncalls>>

\* Lines 113-128: one pass of the user loop.
UserStep ==
    /\ pc = "train_user"
    /\ user_id < NumStudent
    /\ LET inputs == InputsOf(zero_train_data, user_id)
           target0 == clone(inputs)
           output == forward(model, inputs.val)
           target == MaskedTarget(target0, nan_mask(train_data, user_id), output)
           loss == Loss(model, lamb, output, target.val)
           grad == Backward(model, lamb, inputs.val, output, target.val)
           rate == OptimizerLr(optimizer, lr)
       IN  /\ zero_train_data' = WriteThrough(zero_train_data, user_id, target)
           /\ train_loss' = Accumulate(train_loss, loss)
           /\ model' = sgd_step(model, grad, rate)
           /\ step' = [n |-> step.n + 1, fwd |-> step.fwd + 1, epoch |-> epoch,
                       user_id |-> user_id, lr |-> rate, output |-> output,
                       target |-> target.val, loss |-> loss]
    /\ user_id' = range_next(user_id)
    /\ UNCHANGED <<dataVars, pc, optimizer, epoch, train_loss_lst, valid_acc_lst,
                   test_acc, ret, ncalls>>

\* Lines 151-155: the validation accuracy of the epoch and the two lists.
EpochEnd ==
    /\ pc = "train_user"
    /\ user_id >= NumStudent
    /\ LET r == evaluate(model, zero_train_data, valid_data)
       IN  /\ model' = r.model
           /\ IF r.val.err = "ZeroDivisionError"
              THEN /\ pc' = "ZeroDivisionError"
                   /\ UNCHANGED <<train_loss_lst, valid_acc_lst, epoch>>
              ELSE /\ pc' = "train_epoch"
                   /\ train_loss_lst' = Append(train_loss_lst, train_loss)
                   /\ valid_acc_lst' = Append(valid_acc_lst, r.val)
                   /\ epoch' = epoch + 1
    /\ UNCHANGED <<dataVars, zero_train_data, optimizer, user_id, train_loss, test_acc,
                   step, ret, ncalls>>

\* Line 158 on: the loop is over, train returns to main.
TrainReturn ==
    /\ pc = "train_epoch"
    /\ epoch >= num_epoch
    /\ pc' = "main_test"
    /\ UNCHANGED <<dataVars, model, zero_train_data, optimizer, epoch, user_id, train_loss,
                   train_loss_lst, valid_acc_lst, test_acc, step, ret, ncalls>>

\* Lines 212-213: the final test accuracy.
TestEval ==
    /\ pc = "main_test"
    /\ LET r == evaluate(model, zero_train_data, test_data)
       IN  /\ model' = r.model
           /\ test_acc' = r.val
           /\ pc' = IF r.val.err = "ZeroDivisionError" THEN "ZeroDivisionError" ELSE "done"
    /\ UNCHANGED <<dataVars, zero_train_data, optimizer, epoch, user_id, train_loss,
                   train_loss_lst, valid_acc_lst, step, ret, ncalls>>

Next == EpochStart \/ UserStep \/ EpochEnd \/ TrainReturn \/ TestEval

Spec == Init /\ [][Next]_vars

\* ------------------------------------------- the functions called directly
\* Parameter states beyond those a fresh model has, up to the magnitudes at
\* which float32 saturates.
FnModels ==
    {AutoEncoder(gw, 0, hw, 0, ow, ob, d) :
        gw \in {0, SC}, hw \in {0, SC}, ow \in {0 - SC, 0, SatHi},
        ob \in {SatLo, 0, SatHi}, d \in {0, 3}}

InitFn ==
    /\ train_data \in {RawMatrix(1, c) : c \in 0 .. 2}
    /\ zero_train_data = ZeroFill(train_data)
    /\ valid_data \in TripleSets
    /\ test_data = AllTriples(1)
    /\ model \in FnModels
    /\ lr = SC
    /\ lamb = 0
    /\ num_epoch = 1
    /\ pc = "call"
    /\ optimizer = "optimizer"
    /\ epoch = 0
    /\ user_id = 0
    /\ train_loss = 0
    /\ train_loss_lst = <<>>
    /\ valid_acc_lst = <<>>
    /\ test_acc = Raised("unset")
    /\ step = NoStep
    /\ ret = NoRet
    /\ ncalls = 0

fnFrame == <<dataVars, zero_train_data, pc, optimizer, epoch, user_id, train_loss,
             train_loss_lst, valid_acc_lst, test_acc, step>>

\* model(inputs) on a row of the zero-filled matrix.
CallForward ==
    /\ ncalls < MaxCalls
    /\ \E u \in Users :
          ret' = [fn |-> "forward",
                  args |-> [model |-> model, inputs |-> zero_train_data[u]],
                  val |-> forward(model, zero_train_data[u])]
    /\ ncalls' = ncalls + 1
    /\ UNCHANGED <<fnFrame, model>>

CallWeightNorm ==
    /\ ncalls < MaxCalls
    /\ ret' = [fn |-> "get_weight_norm", args |-> [model |-> model],
               val |-> get_weight_norm(model)]
    /\ ncalls' = ncalls + 1
    /\ UNCHANGED <<fnFrame, model>>

CallEvaluate ==
    /\ ncalls < MaxCalls
    /\ \E triples \in {valid_data, test_data} :
          LET r == evaluate(model, zero_train_data, triples)
          IN  /\ ret' = [fn |-> "evaluate",
                         args |-> [model |-> model, data |-> zero_train_data,
                                   triples |-> triples],
                         val |-> r.val]
              /\ model' = r.model
    /\ ncalls' = ncalls + 1
    /\ UNCHANGED fnFrame

NextFn == CallForward \/ CallWeightNorm \/ CallEvaluate

SpecFn == InitFn /\ [][NextFn]_vars

\* ==================================================================== claims
ParamsOf(m) == [m EXCEPT !.training = FALSE]
IsCall(f) == ret.fn = f

\* ------------------------------------------------------------------- C1
\* C1: get_weight_norm returns the sum of the squared norms of all three
\* weight matrices, g, hidden and h (biases excluded).
C1_AllThreeMatrices ==
    IsCall("get_weight_norm") =>
        ret.val = SqNorm(ret.args.model.g_w) + SqNorm(ret.args.model.hidden_w)
                  + SqNorm(ret.args.model.h_w)

\* ------------------------------------------------------------------- C2
\* The triples of a call that the decision rule (value >= 0.5) gets right.
CorrectSet(m, data, triples) ==
    {n \in 1 .. Len(triples) :
        (forward(m, data[triples[n].user_id])[triples[n].question_id] >= Half)
            = (triples[n].is_correct = 1)}

\* C2: on a non-empty triple set evaluate returns correct_count / total_count,
\* a value in [0, 1], where a triple is correct when (reconstruction >= 0.5)
\* equals its label; a reconstruction of exactly 0.5 is predicted correct.
C2_Accuracy ==
    (IsCall("evaluate") /\ Len(ret.args.triples) > 0) =>
        LET a == ret.args
            correct == Cardinality(CorrectSet(ParamsOf(a.model), a.data, a.triples))
        IN  /\ ret.val.err = ""
            /\ ret.val.den > 0
            /\ ret.val.num * Len(a.triples) = correct * ret.val.den
            /\ 0 <= ret.val.num
            /\ ret.val.num <= ret.val.den

\* A call in which a triple labelled 1 has a reconstruction of exactly 0.5,
\* and is counted.
C2_Witness ==
    /\ IsCall("evaluate")
    /\ Len(ret.args.triples) = 1
    /\ ret.args.triples[1].is_correct = 1
    /\ forward(ret.args.model, ret.args.data[ret.args.triples[1].user_id])
           [ret.args.triples[1].question_id] = Half
    /\ ret.val = [err |-> "", num |-> 1, den |-> 1]

\* ------------------------------------------------------------------- C5
\* C5: evaluate leaves the parameters as they were, and a call that follows
\* a call with the same parameters, matrix and triples returns the same value.
C5_EvaluatePure ==
    [][(ncalls' = ncalls + 1 /\ ret'.fn = "evaluate") =>
          /\ ParamsOf(model') = ParamsOf(model)
          /\ (/\ ret.fn = "evaluate"
              /\ ParamsOf(ret.args.model) = ParamsOf(ret'.args.model)
              /\ ret.args.data = ret'.args.data
              /\ ret.args.triples = ret'.args.triples)
                 => ret'.val = ret.val]_vars

\* A second call of evaluate on a non-empty set, right after a first.
C5_Witness ==
    /\ IsCall("evaluate")
    /\ ncalls = 2
    /\ Len(ret.args.triples) > 0
    /\ ~ret.args.model.training

\* ------------------------------------------------------------------- C6
\* C6: evaluate on an empty triple set returns no accuracy; it ends in a
\* division-by-zero error.
C6_EmptyRaises ==
    (IsCall("evaluate") /\ Len(ret.args.triples) = 0) =>
        ret.val.err = "ZeroDivisionError"

C6_Witness == IsCall("evaluate") /\ Len(ret.args.triples) = 0

\* ------------------------------------------------------------------- C7
\* C7 as stated: forward returns a vector of length num_questions with
\* every entry strictly between 0 and 1.
C7_StrictlyInside ==
    IsCall("forward") =>
        /\ DOMAIN ret.val = Questions
        /\ \A q \in Questions : 0 < ret.val[q] /\ ret.val[q] < SC

\* Pre-activations for which every float32 sigmoid is strictly inside.
InsideLo == (0 - 87) * SC
InsideHi == 16 * SC

\* C7 amended: forward returns a vector of length num_questions with every
\* entry in the closed interval [0, 1]; an entry is strictly inside when
\* its pre-activation is within [-87, 16], exactly 1 when it is >= 18 and
\* exactly 0 when it is <= -104.
C7_ClosedInterval ==
    IsCall("forward") =>
        LET z == PreOut(ret.args.model, ret.args.inputs)
        IN  /\ DOMAIN ret.val = Questions
            /\ DOMAIN ret.args.inputs = Questions
            /\ \A q \in Questions :
                  /\ 0 <= ret.val[q]
                  /\ ret.val[q] <= SC
                  /\ (InsideLo <= z[q] /\ z[q] <= InsideHi)
                        => (0 < ret.val[q] /\ ret.val[q] < SC)
                  /\ z[q] >= SatHi => ret.val[q] = SC
                  /\ z[q] <= SatLo => ret.val[q] = 0

\* A forward pass with one entry exactly 0 and another strictly inside.
C7_Witness ==
    /\ IsCall("forward")
    /\ \E q \in Questions : ret.val[q] = 0
    /\ \E q \in Questions : 0 < ret.val[q] /\ ret.val[q] < SC

\* ---------------------------------------------------- claims about train
\* A pass of the user loop has just been made.
Stepped == step'.n = step.n + 1
Observed(u) == {q \in Questions : ~isnan(train_data[u][q])}
Missing(u) == Questions \ Observed(u)

RECURSIVE SumOver(_, _)
SumOver(f, S) ==
    IF S = {} THEN 0 ELSE LET x == CHOOSE y \in S : TRUE IN f[x] + SumOver(f, S \ {x})

\* ------------------------------------------------------------------- C3
\* C3: an update made in an epoch < 40 uses lr, an update made in an epoch
\* >= 40 uses exactly lr / 2, whatever the number of epochs past 40; lr
\* itself never changes.
C3_LrSchedule ==
    [][/\ lr' = lr
       /\ Stepped =>
            LET rate == IF epoch < 40 THEN lr ELSE lr \div 2
                output == forward(model, zero_train_data[user_id])
            IN  /\ step'.lr = rate
                /\ 2 * rate = (IF epoch < 40 THEN 2 ELSE 1) * lr
                /\ ParamsOf(model') =
                      ParamsOf(sgd_step(model,
                                        Backward(model, lamb, zero_train_data[user_id],
                                                 output, step'.target),
                                        rate))]_vars

\* An update at lr / 2 in epoch 41, the second epoch past the switch.
C3_Witness ==
    /\ step.n > 0
    /\ step.epoch = 41
    /\ step.lr = lr \div 2
    /\ pc = "train_user"

\* ------------------------------------------------------------------- C4
\* C4: the target of a user is the zero-filled row where the raw row is
\* observed and the reconstruction where it is missing; the squared error
\* of a missing position is 0 and the loss is the squared error over the
\* observed positions plus (lambda / 2) * weight_norm().
C4_MaskedLoss ==
    [][Stepped =>
          LET u == user_id
              output == forward(model, zero_train_data[u])
              target == step'.target
          IN  /\ step'.output = output
              /\ \A q \in Observed(u) :
                    target[q] = zero_train_data[u][q] /\ target[q] = train_data[u][q]
              /\ \A q \in Missing(u) :
                    target[q] = output[q] /\ Mul(output[q] - target[q], output[q] - target[q]) = 0
              /\ step'.loss =
                    SumOver([q \in Questions |->
                                Mul(output[q] - train_data[u][q], output[q] - train_data[u][q])],
                            Observed(u))
                    + Mul(lamb \div 2, get_weight_norm(model))]_vars

\* A user with a missing and an observed question whose reconstruction at
\* the missing one is not the 0 of the zero-filled row.
C4_Witness ==
    /\ step.n > 0
    /\ Missing(step.user_id) # {}
    /\ Observed(step.user_id) # {}
    /\ \E q \in Missing(step.user_id) : step.target[q] # 0
    /\ lamb > 0
    /\ step.loss > 0

\* ------------------------------------------------------------------- C8
\* train has returned to main (whose test evaluation may then raise).
TrainOver ==
    \/ pc \in {"main_test", "done"}
    \/ pc = "ZeroDivisionError" /\ test_acc.err = "ZeroDivisionError"

\* Where train is: strictly larger after every step train takes.
TrainMeasure ==
    IF TrainOver THEN num_epoch * (NumStudent + 2) + 1
    ELSE epoch * (NumStudent + 2) + (IF pc = "train_user" THEN user_id + 1 ELSE 0)

\* What holds of the two lists in every state of train.
ListsInStep ==
    /\ Len(train_loss_lst) = Len(valid_acc_lst)
    /\ pc \in {"train_epoch", "train_user"} => Len(train_loss_lst) = epoch
    /\ TrainOver => (epoch = num_epoch /\ Len(train_loss_lst) = num_epoch)
    /\ epoch <= num_epoch
    /\ pc = "ZeroDivisionError" => TrainOver

\* C8: with a non-empty validation set train runs every epoch and ends (every
\* step moves it on, towards a bound, into a state with a next step); at
\* the end of epoch e both lists have e + 1 entries, one appended per epoch,
\* and the loss entry is the sum over the users of the loss each had before
\* its update.
C8_AllEpochs ==
    [][(Len(valid_data) > 0 /\ num_epoch >= 1) =>
          /\ ListsInStep
          /\ ListsInStep'
          /\ ~TrainOver => TrainMeasure' > TrainMeasure
          /\ ~TrainOver' => (pc' = "train_epoch" \/ (pc' = "train_user" /\ user_id' <= NumStudent))
          /\ TrainOver' => epoch' = num_epoch
          /\ Stepped =>
               train_loss' = (IF user_id = 0 THEN 0 ELSE train_loss)
                             + Loss(model, lamb, forward(model, zero_train_data[user_id]),
                                    step'.target)
          /\ train_loss_lst' # train_loss_lst =>
               /\ user_id = NumStudent
               /\ step.user_id = NumStudent - 1
               /\ step.epoch = epoch
               /\ train_loss_lst' = Append(train_loss_lst, train_loss)
               /\ Len(valid_acc_lst') = epoch + 1
               /\ epoch' = epoch + 1]_vars

\* train has returned after MaxEpoch epochs, with a loss in every entry.
C8_Witness ==
    /\ pc = "main_test"
    /\ num_epoch = MaxEpoch
    /\ Len(train_loss_lst) = MaxEpoch
    /\ \A i \in 1 .. MaxEpoch : train_loss_lst[i] > 0

\* ------------------------------------------------------------------- C9
\* C9: in an epoch every user gets one forward pass and then one update, in
\* ascending row order; the parameters change in no other step; the
\* accuracy of epoch e is that of the parameters after (e + 1) * num_users
\* updates.
C9_OrderOfSteps ==
    [][/\ Stepped =>
            /\ step.n = epoch * NumStudent + user_id
            /\ step.fwd = step.n
            /\ step'.fwd = step'.n
            /\ step'.user_id = user_id
            /\ step'.epoch = epoch
            /\ user_id' = user_id + 1
       /\ ParamsOf(model') # ParamsOf(model) => Stepped
       /\ step' # step => Stepped
       /\ valid_acc_lst' # valid_acc_lst =>
            /\ step.n = (epoch + 1) * NumStudent
            /\ ParamsOf(model') = ParamsOf(model)
            /\ valid_acc_lst' =
                  Append(valid_acc_lst, evaluate(model, zero_train_data, valid_data).val)]_vars

\* The accuracy of the second epoch has been recorded.
C9_Witness ==
    /\ Len(valid_acc_lst) = 2
    /\ step.n = 2 * NumStudent
    /\ step.user_id = NumStudent - 1

\* ------------------------------------------------------------------ C10
\* C10: no step of train or evaluate changes the raw matrix or the
\* zero-filled matrix; the zero-filled matrix stays the raw one with 0 in
\* its missing cells.
C10_MatricesUnchanged ==
    [][/\ train_data' = train_data
       /\ zero_train_data' = zero_train_data
       /\ zero_train_data' = ZeroFill(train_data')]_vars

\* The test evaluation of main is done, after updates whose target held a
\* non-zero reconstruction in a missing cell.
C10_Witness ==
    /\ pc = "done"
    /\ step.n > 0
    /\ \E q \in Missing(step.user_id) :
          step.target[q] # 0 /\ zero_train_data[step.user_id][q] = 0

====
